---------------------------- MODULE Spec2Model ----------------------------
(***************************************************************************)
(* A model of package nnls (src/nnls.go): the three variants SCA, SCAKKT   *)
(* and SCALimit of the sequential coordinate-wise algorithm for the        *)
(* non-negative least squares problem.                                     *)
(*                                                                         *)
(* Numbers.  A float64 is modelled by an exact extended rational <<n, d>>  *)
(* in lowest terms with d >= 0:  d > 0 is the rational n/d, <<1, 0>> is    *)
(* +Inf, <<-1, 0>> is -Inf and <<0, 0>> is NaN, with the IEEE-754 rules    *)
(* for the special values (x/0, 0/0, Inf-Inf, 0*Inf, comparisons with NaN  *)
(* are false).  Rounding and the sign of zero are not modelled: every      *)
(* divisor in the code is a sum of squares, so never a negative zero.      *)
(*                                                                         *)
(* Vectors and matrices are sequences indexed from 1 (the code indexes     *)
(* from 0).                                                                *)
(***************************************************************************)
EXTENDS Integers, Sequences, FiniteSets, TLC

\* ------------------------------------------------------------- bounds
MaxRows == 2
MaxCols == 2
MaxTol == 1
MaxLimit == 4
MaxLimitChanges == 1

AVals == {0, 1}
BVals == {-1, 1}

\* ------------------------------------------------------ float64 values
Abs(v) == IF v < 0 THEN -v ELSE v
Sgn(v) == IF v < 0 THEN -1 ELSE IF v > 0 THEN 1 ELSE 0

RECURSIVE GCD(_, _)
GCD(p, q) == IF q = 0 THEN p ELSE GCD(q, p % q)

Norm(nn, dd) ==
    IF dd = 0 THEN <<Sgn(nn), 0>>
    ELSE LET s == IF dd < 0 THEN -1 ELSE 1
             g == GCD(Abs(nn), Abs(dd))
         IN  <<s * (nn \div g), s * (dd \div g)>>

Q(v) == <<v, 1>>
Zero == Q(0)
NaN == <<0, 0>>
IsNaN(a) == a = NaN
IsFinite(a) == a[2] > 0

Neg(a) == <<-a[1], a[2]>>

Add(a, c) ==
    IF a[2] = 0 /\ c[2] = 0
    THEN (IF a = c THEN a ELSE NaN)
    ELSE IF a[2] = 0 THEN a
    ELSE IF c[2] = 0 THEN c
    ELSE LET g == GCD(a[2], c[2])
         IN  Norm(a[1] * (c[2] \div g) + c[1] * (a[2] \div g), (a[2] \div g) * c[2])

Sub(a, c) == Add(a, Neg(c))

Mul(a, c) ==
    IF a[2] = 0 \/ c[2] = 0
    THEN <<Sgn(a[1] * c[1]), 0>>
    ELSE LET g1 == GCD(Abs(a[1]), c[2])
             g2 == GCD(Abs(c[1]), a[2])
         IN  Norm((a[1] \div g1) * (c[1] \div g2), (a[2] \div g2) * (c[2] \div g1))

\* a / c; the divisor's zero is +0.
Div(a, c) ==
    IF a[2] = 0 \/ c[2] = 0 \/ c[1] = 0
    THEN (IF IsNaN(a) \/ IsNaN(c) THEN NaN
          ELSE IF c[2] = 0 THEN (IF a[2] = 0 THEN NaN ELSE Zero)
          ELSE IF c[1] = 0 THEN <<Sgn(a[1]), 0>>
          ELSE <<Sgn(a[1]) * Sgn(c[1]), 0>>)
    ELSE Mul(a, Norm(Sgn(c[1]) * c[2], Abs(c[1])))

\* a < c, false when either is NaN.
Less(a, c) ==
    /\ ~IsNaN(a)
    /\ ~IsNaN(c)
    /\ IF a[2] = 0 /\ c[2] = 0 THEN a[1] < c[1]
       ELSE IF a[2] = 0 THEN a[1] < 0
       ELSE IF c[2] = 0 THEN c[1] > 0
       ELSE LET g == GCD(a[2], c[2])
            IN  a[1] * (c[2] \div g) < c[1] * (a[2] \div g)

\* a == c, false when either is NaN.
Eq(a, c) == ~IsNaN(a) /\ ~IsNaN(c) /\ a = c

\* a <= c, false when either is NaN.
Leq(a, c) == Less(a, c) \/ Eq(a, c)

RECURSIVE SumSeq(_)
SumSeq(s) ==
    IF s = <<>> THEN Zero
    ELSE Add(SumSeq(SubSeq(s, 1, Len(s) - 1)), s[Len(s)])


\* ------------------------------------------------------- program state
VARIABLES
    A, b,          \* the design matrix and the measurement vector of the call
    variant,       \* which function was called: "SCA", "SCAKKT" or "SCALimit"
    tol,           \* the tolerance argument: δ of SCA, ε of SCAKKT
    limit,         \* SCALimit's limit argument, then its local variable
    Limit,         \* the package variable Limit
    pc,            \* position of the call in the function body
    H, Hd, f, ub,  \* what the setup computes
    x, mu,         \* the result vector and the gradient μ
    i, k, ch,      \* the sweep counter, the coordinate index, the change flag
    result,        \* what the call returned: [x, i, err], or "none"
    outcome,       \* why the call ended
    sweeps,        \* history: the number of full sweeps performed
    xPrev,         \* history: x when the current or last sweep began
    setupDone,     \* history: the setup has run
    LimitAtCall,   \* history: the value of Limit when the call was made
    limitArg,      \* history: the limit argument as the caller passed it
    LimitReg,      \* the value of Limit the last loop test read
    changes        \* history: the number of changes of Limit during the call

vars == <<A, b, variant, tol, limit, Limit, pc, H, Hd, f, ub, x, mu, i, k, ch,
          result, outcome, sweeps, xPrev, setupDone, LimitAtCall, limitArg, LimitReg, changes>>

Variants == {"SCA", "SCAKKT", "SCALimit"}

Matrices == UNION {[1..mm -> [1..nn -> AVals]] : mm \in 0..MaxRows, nn \in 1..MaxCols}
Vectors == UNION {[1..mm -> BVals] : mm \in 0..MaxRows}

\* s <= t in the lexicographic order of integer sequences of one length.
RECURSIVE LexLeq(_, _)
LexLeq(s, t) ==
    IF s = <<>> THEN TRUE
    ELSE IF Head(s) # Head(t) THEN Head(s) < Head(t)
    ELSE LexLeq(Tail(s), Tail(t))

\* The pairs (A, b) of the bounds.  A and b enter the computation only through
\* sums over the rows (f, H, ub), which in exact arithmetic do not depend on
\* the order of the rows: of the pairs with len(A) = len(b) that differ by a
\* permutation of the rows of A and b together, the one whose rows are in
\* order stands for all.
Inputs ==
    {in \in Matrices \X Vectors :
        Len(in[1]) = Len(in[2]) =>
            \A r \in 1..(Len(in[1]) - 1) :
                LexLeq(Append(in[1][r], in[2][r]), Append(in[1][r + 1], in[2][r + 1]))}

m == Len(A)
n == Len(A[1])

\* ------------------------------------------------------------- setup
\* f = -Aᵀb
fOf(j) == SumSeq([r \in 1..Len(b) |-> Neg(Mul(Q(b[r]), Q(A[r][j])))])

\* the entries of H = AᵀA the code computes: the diagonal and above
HUpper(r, c) == SumSeq([kk \in 1..Len(b) |-> Mul(Q(A[kk][r]), Q(A[kk][c]))])

\* H with the entries below the diagonal copied from above it
HOf(r, c) == IF c < r THEN HUpper(c, r) ELSE HUpper(r, c)

\* one term of ub: ab/aa of column c when positive, else nothing
ubTerm(c) ==
    LET ab == SumSeq([j \in 1..Len(b) |-> Mul(Q(A[j][c]), Q(b[j]))])
        aa == SumSeq([j \in 1..Len(b) |-> Mul(Q(A[j][c]), Q(A[j][c]))])
        u == Div(ab, aa)
    IN  IF Less(Zero, u) THEN u ELSE Zero

ubOf == SumSeq([c \in 1..n |-> ubTerm(c)])

\* ------------------------------------------------- coordinate update
\* Mutant of CoordUpdate: the step is not projected onto b >= 0.
CoordUpdateNoProjection(xv, muv, chv, kk) ==
    LET xk == xv[kk]
        b1 == Sub(xk, Div(muv[kk], Hd[kk]))
        d == Sub(b1, xk)
    IN  IF Eq(b1, xk)
        THEN [x |-> xv, mu |-> muv, ch |-> chv]
        ELSE [x |-> [xv EXCEPT ![kk] = b1],
              mu |-> [j \in 1..Len(muv) |-> Add(muv[j], Mul(d, H[kk][j]))],
              ch |-> TRUE]

\* Mutant of CoordUpdate: the step is taken up the gradient.
CoordUpdateUphill(xv, muv, chv, kk) ==
    LET xk == xv[kk]
        b0 == Add(xk, Div(muv[kk], Hd[kk]))
        b1 == IF Less(b0, Zero) THEN Zero ELSE b0
        d == Sub(b1, xk)
    IN  IF Eq(b1, xk)
        THEN [x |-> xv, mu |-> muv, ch |-> chv]
        ELSE [x |-> [xv EXCEPT ![kk] = b1],
              mu |-> [j \in 1..Len(muv) |-> Add(muv[j], Mul(d, H[kk][j]))],
              ch |-> TRUE]

\* Mutant of CoordUpdate: ch is not set when the coordinate changes.
CoordUpdateNoFlag(xv, muv, chv, kk) ==
    LET xk == xv[kk]
        b0 == Sub(xk, Div(muv[kk], Hd[kk]))
        b1 == IF Less(b0, Zero) THEN Zero ELSE b0
        d == Sub(b1, xk)
    IN  IF Eq(b1, xk)
        THEN [x |-> xv, mu |-> muv, ch |-> chv]
        ELSE [x |-> [xv EXCEPT ![kk] = b1],
              mu |-> [j \in 1..Len(muv) |-> Add(muv[j], Mul(d, H[kk][j]))],
              ch |-> chv]

\* Mutant of CoordUpdate: μ is updated with the new value, not with the delta.
CoordUpdateNoDelta(xv, muv, chv, kk) ==
    LET xk == xv[kk]
        b0 == Sub(xk, Div(muv[kk], Hd[kk]))
        b1 == IF Less(b0, Zero) THEN Zero ELSE b0
    IN  IF Eq(b1, xk)
        THEN [x |-> xv, mu |-> muv, ch |-> chv]
        ELSE [x |-> [xv EXCEPT ![kk] = b1],
              mu |-> [j \in 1..Len(muv) |-> Add(muv[j], Mul(b1, H[kk][j]))],
              ch |-> TRUE]

\* One pass of the body of `for k, xk := range x`: the projected step of
\* coordinate kk and the update of μ.
CoordUpdate(xv, muv, chv, kk) ==
    LET xk == xv[kk]
        b0 == Sub(xk, Div(muv[kk], Hd[kk]))
        b1 == IF Less(b0, Zero) THEN Zero ELSE b0
        d == Sub(b1, xk)
    IN  IF Eq(b1, xk)
        THEN [x |-> xv, mu |-> muv, ch |-> chv]
        ELSE [x |-> [xv EXCEPT ![kk] = b1],
              mu |-> [j \in 1..Len(muv) |-> Add(muv[j], Mul(d, H[kk][j]))],
              ch |-> TRUE]

\* Coordinates 1..kk of one sweep from (xv, muv), in index order.
RECURSIVE SweepTo(_, _, _)
SweepTo(xv, muv, kk) ==
    IF kk = 0 THEN [x |-> xv, mu |-> muv, ch |-> FALSE]
    ELSE LET s == SweepTo(xv, muv, kk - 1)
         IN  CoordUpdate(s.x, s.mu, s.ch, kk)

\* One full sweep from (xv, muv).
Sweep(xv, muv) == SweepTo(xv, muv, Len(xv))

\* ------------------------------------------------------ stopping tests
\* min(μ) as the code scans it
RECURSIVE MinTo(_, _)
MinTo(muv, kk) ==
    IF kk = 1 THEN muv[1]
    ELSE LET mHxf == MinTo(muv, kk - 1)
         IN  IF Less(muv[kk], mHxf) THEN muv[kk] ELSE mHxf

\* SCA's quantity xHx + xf - ub*mHxf
Gap(xv, muv) ==
    LET Hx == [r \in 1..Len(xv) |-> SumSeq([j \in 1..Len(xv) |-> Mul(H[r][j], xv[j])])]
        xHx == SumSeq([r \in 1..Len(xv) |-> Mul(xv[r], Hx[r])])
        xf == SumSeq([r \in 1..Len(xv) |-> Mul(xv[r], f[r])])
        mHxf == MinTo(muv, Len(muv))
    IN  Sub(Add(xHx, xf), Mul(ub, mHxf))

\* SCA's test: the δKKT criterion
GapStop(xv, muv) == Leq(Gap(xv, muv), tol)

\* SCAKKT's scan from coordinate kk on: TRUE when some coordinate makes it
\* `continue i`
RECURSIVE KKTContinue(_, _, _)

\* Mutant of KKTContinue: μ[k] > ε continues whether or not x[k] > 0.
KKTContinueAbs(xv, muv, kk) ==
    IF kk > Len(muv) THEN FALSE
    ELSE \/ Less(xv[kk], Zero)
         \/ Less(muv[kk], Neg(tol))
         \/ Less(tol, muv[kk])
         \/ KKTContinue(xv, muv, kk + 1)

KKTContinue(xv, muv, kk) ==
    IF kk > Len(muv) THEN FALSE
    ELSE \/ Less(xv[kk], Zero)
         \/ Less(muv[kk], Neg(tol))
         \/ (Less(Zero, xv[kk]) /\ Less(tol, muv[kk]))
         \/ KKTContinue(xv, muv, kk + 1)

\* SCAKKT's test: the scan reaches `break`
KKTStop(xv, muv) == ~KKTContinue(xv, muv, 1)


\* The loop run to its end from (xv, muv) with counter iv, sw sweeps done and
\* the loop condition comparing to bound throughout: what it returns.
RECURSIVE RunLoop(_, _, _, _, _)
RunLoop(xv, muv, iv, sw, bound) ==
    IF ~(iv < bound) THEN [x |-> xv, i |-> iv, sweeps |-> sw]
    ELSE LET s == Sweep(xv, muv)
             stop == IF variant = "SCA" THEN GapStop(s.x, s.mu) \/ ~s.ch
                     ELSE IF variant = "SCAKKT" THEN ~s.ch \/ KKTStop(s.x, s.mu)
                     ELSE ~s.ch
         IN  IF stop THEN [x |-> s.x, i |-> iv, sweeps |-> sw + 1]
             ELSE RunLoop(s.x, s.mu, iv + 1, sw + 1, bound)

\* The whole loop from x = 0, μ = f, i = 1.
Run(bound) == RunLoop([j \in 1..Len(f) |-> Zero], f, 1, 0, bound)

\* ------------------------------------------------------------- the call
LimitVals == 0..MaxLimit
LimitArgs == -1..(MaxLimit + 1)
TolVals == {Q(t) : t \in 0..MaxTol}

InFlight == {"setup", "limit", "test", "sweep", "stop"}
Ended == {"done", "panic"}
PCs == {"call"} \cup InFlight \cup Ended

\* Calls the limit logic is exercised on: a pair whose every sweep changes x,
\* pairs that converge at the first and at the second sweep, one with no rows,
\* and one with len(b) # len(A).
Cases ==
    { <<<< <<1, 1>>, <<0, 1>> >>, <<1, 1>>>>,
      <<<< <<1, 0>>, <<0, 1>> >>, <<1, -1>>>>,
      <<<< <<1>> >>, <<1>>>>,
      <<<< <<1>> >>, <<-1>>>>,
      <<<<>>, <<>>>>,
      <<<< <<1>> >>, <<>>>> }

\* The state at the call, with the arguments and the package variable drawn
\* from the given sets.
Start(inputs, limitVals, limitArgs) ==
    /\ \E in \in inputs : A = in[1] /\ b = in[2]
    /\ variant \in Variants
    /\ tol \in (IF variant = "SCALimit" THEN {Zero} ELSE TolVals)
    /\ limit \in (IF variant = "SCALimit" THEN limitArgs ELSE {-1})
    /\ Limit \in limitVals
    /\ pc = "call"
    /\ H = <<>> /\ Hd = <<>> /\ f = <<>> /\ ub = Zero
    /\ x = <<>> /\ mu = <<>>
    /\ i = 0 /\ k = 0 /\ ch = FALSE
    /\ result = "none"
    /\ outcome = "none"
    /\ sweeps = 0
    /\ xPrev = <<>>
    /\ setupDone = FALSE
    /\ LimitAtCall = Limit
    /\ limitArg = limit
    /\ LimitReg = {}
    /\ changes = 0

\* Every A and b within the bounds; Limit at its largest, so that every
\* shorter run is a prefix of one explored.
Init == Start(Inputs, {MaxLimit}, {-1})

\* The cases above, under every Limit and every limit argument.
InitLimit == Start(Cases, LimitVals, LimitArgs)

\* The function entry: m := len(A); n := len(A[0]); the length check.
Call ==
    /\ pc = "call"
    /\ IF Len(A) = 0
       THEN /\ pc' = "panic"
            /\ outcome' = "panic"
            /\ UNCHANGED result
       ELSE IF Len(b) # m
       THEN /\ pc' = "done"
            /\ outcome' = "error"
            /\ result' = [x |-> "nil", i |-> 0, err |-> TRUE]
       ELSE /\ pc' = "setup"
            /\ UNCHANGED <<outcome, result>>
    /\ UNCHANGED <<A, b, variant, tol, limit, Limit, H, Hd, f, ub, x, mu, i, k, ch,
                   sweeps, xPrev, setupDone, LimitAtCall, limitArg, LimitReg, changes>>

\* f, H, Hd, x, μ (and SCA's ub); SCA and SCAKKT then set i to 1.
Setup ==
    /\ pc = "setup"
    /\ f' = [j \in 1..n |-> fOf(j)]
    /\ H' = [r \in 1..n |-> [c \in 1..n |-> HOf(r, c)]]
    /\ Hd' = [r \in 1..n |-> HUpper(r, r)]
    /\ x' = [j \in 1..n |-> Zero]
    /\ mu' = f'
    /\ ub' = IF variant = "SCA" THEN ubOf ELSE Zero
    /\ setupDone' = TRUE
    /\ IF variant = "SCALimit"
       THEN pc' = "limit" /\ UNCHANGED i
       ELSE pc' = "test" /\ i' = 1
    /\ UNCHANGED <<A, b, variant, tol, limit, Limit, k, ch, result, outcome,
                   sweeps, xPrev, LimitAtCall, limitArg, LimitReg, changes>>

\* SCALimit: a negative limit is replaced by Limit; i is set to 1.
LimitDefault ==
    /\ pc = "limit"
    /\ limit' = IF limit < 0 THEN Limit ELSE limit
    /\ i' = 1
    /\ pc' = "test"
    /\ UNCHANGED <<A, b, variant, tol, Limit, H, Hd, f, ub, x, mu, k, ch, result,
                   outcome, sweeps, xPrev, setupDone, LimitAtCall, limitArg, LimitReg, changes>>

\* Mutant of LoopBounds: SCALimit called with a negative limit compares to the
\* package variable, like the other two, instead of to its local copy.
LoopBoundsReread ==
    IF variant = "SCALimit" /\ limitArg >= 0 THEN {limit} ELSE {Limit} \cup LimitReg

\* What the loop condition may compare i to.  SCALimit compares to its
\* local variable.  SCA and SCAKKT read the package variable, unsynchronised:
\* the read yields its current value or the value an earlier read yielded.
LoopBounds ==
    IF variant = "SCALimit" THEN {limit} ELSE {Limit} \cup LimitReg

\* Mutant of LoopCond: the comparison admits the bound itself.
LoopCondLeq(iv, bound) == iv <= bound

\* The loop condition: iv < Limit (iv < limit in SCALimit).
LoopCond(iv, bound) == iv < bound

\* The loop condition is evaluated: into the next sweep, or out of the loop
\* to the return.
LoopTest ==
    /\ pc = "test"
    /\ \E bound \in LoopBounds :
          /\ LimitReg' = IF variant = "SCALimit" THEN LimitReg ELSE {bound}
          /\ IF LoopCond(i, bound)
             THEN /\ pc' = "sweep"
                  /\ k' = 1
                  /\ ch' = FALSE
                  /\ xPrev' = x
                  /\ UNCHANGED <<result, outcome>>
             ELSE /\ pc' = "done"
                  /\ outcome' = "limit"
                  /\ result' = [x |-> x, i |-> i, err |-> FALSE]
                  /\ UNCHANGED <<k, ch, xPrev>>
    /\ UNCHANGED <<A, b, variant, tol, limit, Limit, H, Hd, f, ub, x, mu, i,
                   sweeps, setupDone, LimitAtCall, limitArg, changes>>

\* One coordinate of the sweep.
CoordStep ==
    /\ pc = "sweep"
    /\ LET s == CoordUpdate(x, mu, ch, k)
       IN  /\ x' = s.x
           /\ mu' = s.mu
           /\ ch' = s.ch
    /\ IF k = n
       THEN pc' = "stop" /\ sweeps' = sweeps + 1 /\ UNCHANGED k
       ELSE k' = k + 1 /\ UNCHANGED <<pc, sweeps>>
    /\ UNCHANGED <<A, b, variant, tol, limit, Limit, H, Hd, f, ub, i, result,
                   outcome, xPrev, setupDone, LimitAtCall, limitArg, LimitReg, changes>>

\* The call returns x and i.
Return(why) ==
    /\ pc' = "done"
    /\ outcome' = why
    /\ result' = [x |-> x, i |-> i, err |-> FALSE]
    /\ UNCHANGED i

\* `continue`: i++ and back to the loop condition.
Continue ==
    /\ pc' = "test"
    /\ i' = i + 1
    /\ UNCHANGED <<result, outcome>>

\* SCA after a sweep: the δKKT test, then the no-change test.
StopSCA ==
    /\ pc = "stop"
    /\ variant = "SCA"
    /\ IF GapStop(x, mu) THEN Return("tolerance")
       ELSE IF ~ch THEN Return("nochange")
       ELSE Continue
    /\ UNCHANGED <<A, b, variant, tol, limit, Limit, H, Hd, f, ub, x, mu, k, ch,
                   sweeps, xPrev, setupDone, LimitAtCall, limitArg, LimitReg, changes>>

\* SCAKKT after a sweep: the no-change test, then the εKKT scan.
StopSCAKKT ==
    /\ pc = "stop"
    /\ variant = "SCAKKT"
    /\ IF ~ch THEN Return("nochange")
       ELSE IF KKTStop(x, mu) THEN Return("tolerance")
       ELSE Continue
    /\ UNCHANGED <<A, b, variant, tol, limit, Limit, H, Hd, f, ub, x, mu, k, ch,
                   sweeps, xPrev, setupDone, LimitAtCall, limitArg, LimitReg, changes>>

\* SCALimit after a sweep: the no-change test.
StopSCALimit ==
    /\ pc = "stop"
    /\ variant = "SCALimit"
    /\ IF ~ch THEN Return("nochange") ELSE Continue
    /\ UNCHANGED <<A, b, variant, tol, limit, Limit, H, Hd, f, ub, x, mu, k, ch,
                   sweeps, xPrev, setupDone, LimitAtCall, limitArg, LimitReg, changes>>

\* Another goroutine assigns the package variable while the call runs.
SetLimit ==
    /\ pc \in InFlight
    /\ changes < MaxLimitChanges
    /\ \E v \in LimitVals \ {Limit} : Limit' = v
    /\ changes' = changes + 1
    /\ UNCHANGED <<A, b, variant, tol, limit, pc, H, Hd, f, ub, x, mu, i, k, ch,
                   result, outcome, sweeps, xPrev, setupDone, LimitAtCall, limitArg, LimitReg>>

Solve ==
    \/ Call
    \/ Setup
    \/ LimitDefault
    \/ LoopTest
    \/ CoordStep
    \/ StopSCA
    \/ StopSCAKKT
    \/ StopSCALimit

Next == Solve

NextRace == Solve \/ SetLimit

\* Calls on every input within the bounds.
Spec == Init /\ [][Next]_vars

\* The call moves on: what every step of Solve does to the position <<pc, k>>
\* of a call that has not ended.
Advance ==
    /\ pc \notin Ended
    /\ pc' \in PCs
    /\ k' \in 0..MaxCols
    /\ <<pc', k'>> # <<pc, k>>

\* Calls under every Limit and limit argument.  A call runs on the calling
\* goroutine without blocking: while it has not ended it moves on.
SpecLimit == InitLimit /\ [][Next]_vars /\ WF_<<pc, k>>(Advance)

\* The same calls while another goroutine assigns Limit.
SpecRace == InitLimit /\ [][NextRace]_vars


\* ======================================================== properties
Returned == pc = "done" /\ result.err = FALSE

\* The limit a call is meant to stop on: Limit as it was at the call, or
\* SCALimit's limit argument when that is not negative.
EffectiveAtCall ==
    IF variant = "SCALimit" /\ limitArg >= 0 THEN limitArg ELSE LimitAtCall

Max(p, q) == IF p > q THEN p ELSE q

\* C1 (as claimed): a call with len(b) # len(A), A without rows included,
\* ends by returning the error with a nil x and the count 0, before any setup
\* or sweep, and in no other way.
C1Claim ==
    (Len(b) # Len(A) /\ pc # "call") =>
        /\ pc = "done"
        /\ result = [x |-> "nil", i |-> 0, err |-> TRUE]
        /\ ~setupDone
        /\ sweeps = 0

\* C2 (as claimed): the count a successful call returns is the number of full
\* sweeps it performed, whether it converged or reached the limit.
C2Claim == Returned => result.i = sweeps

\* C4 (as claimed): when SCALimit ends on its effective limit E on an input
\* whose sweeps keep changing x, it has performed E sweeps and returns E.
C4Claim ==
    (Returned /\ variant = "SCALimit" /\ outcome = "limit" /\ Sweep(x, mu).ch) =>
        /\ sweeps = EffectiveAtCall
        /\ result.i = EffectiveAtCall

C5Bounded ==
    /\ sweeps <= EffectiveAtCall
    /\ Returned => result.i <= Max(EffectiveAtCall, 1)

C8Claim ==
    Returned =>
        [x |-> result.x, i |-> result.i, sweeps |-> sweeps] = Run(EffectiveAtCall)

\* C8 (amended): SCALimit reads Limit at most once, after its setup, and an
\* assignment to Limit after that does not alter what it returns; SCA and
\* SCAKKT read Limit at every loop condition, and return what the loop bounded
\* by the Limit of the time of the call returns when Limit is not assigned
\* during the call.
C8Amended ==
    /\ (Returned /\ variant = "SCALimit") =>
          [x |-> result.x, i |-> result.i, sweeps |-> sweeps] = Run(limit)
    /\ (Returned /\ changes = 0) =>
          [x |-> result.x, i |-> result.i, sweeps |-> sweeps] = Run(EffectiveAtCall)

\* C8 witness: SCALimit, called with a negative limit, returned on the limit
\* it read although Limit was assigned a different value afterwards.
C8Witness ==
    /\ Returned
    /\ variant = "SCALimit"
    /\ limitArg < 0
    /\ changes > 0
    /\ outcome = "limit"
    /\ sweeps >= 1
    /\ Limit # limit


\* ------------------------------------------- the mathematics, from A and b
\* No column of A is entirely zero.
NoZeroColumn == \A c \in 1..n : \E r \in 1..m : A[r][c] # 0

\* (AᵀA)[r][c]
Gram(r, c) == SumSeq([j \in 1..m |-> Q(A[j][r] * A[j][c])])

\* A xv
Ax(xv) == [r \in 1..m |-> SumSeq([c \in 1..n |-> Mul(Q(A[r][c]), xv[c])])]

\* F(xv) = 1/2 xvᵀHxv + xvᵀf = 1/2 |A xv|² - <A xv, b>
Objective(xv) ==
    LET y == Ax(xv)
    IN  Sub(Mul(<<1, 2>>, SumSeq([r \in 1..m |-> Mul(y[r], y[r])])),
            SumSeq([r \in 1..m |-> Mul(y[r], Q(b[r]))]))

\* H xv + f = Aᵀ(A xv - b)
Gradient(xv) ==
    LET y == Ax(xv)
    IN  [c \in 1..n |-> SumSeq([r \in 1..m |-> Mul(Q(A[r][c]), Sub(y[r], Q(b[r])))])]

\* C3 (as claimed): every component of x is >= 0 in every state of every call.
C3Claim == \A j \in 1..Len(x) : Leq(Zero, x[j])

\* C3 (amended): no component of x is ever negative, in any state of any call:
\* each is >= 0 or NaN; and when no column of A is entirely zero (arithmetic
\* being exact), every component of x is >= 0.
C3Amended ==
    \A j \in 1..Len(x) :
        /\ ~Less(x[j], Zero)
        /\ NoZeroColumn => Leq(Zero, x[j])

\* C3 witness: the sweep just ended clipped the negative step of the last
\* coordinate to 0, beside a positive coordinate.
C3Witness ==
    /\ pc = "stop"
    /\ NoZeroColumn
    /\ x[n] = Zero
    /\ Less(Zero, mu[n])
    /\ \E j \in 1..n : Less(Zero, x[j])

C7Claim ==
    (Returned /\ outcome \in {"tolerance", "nochange"}) => Sweep(x, mu).x = x

\* C7 (amended): from the x and μ a call ends with after a sweep that changed
\* no coordinate, one more sweep changes no coordinate.
C7Amended ==
    (Returned /\ outcome \in {"tolerance", "nochange"} /\ ~ch) =>
        LET s == Sweep(x, mu)
        IN  ~s.ch /\ s.x = x

\* C7 witness: a call ended by a sweep without change after a sweep that
\* moved x.
C7Witness ==
    /\ Returned
    /\ outcome = "nochange"
    /\ sweeps >= 2
    /\ \E j \in 1..n : Less(Zero, x[j])

\* No coordinate is outside the KKT bounds by more than ε: none has μ[j] < -ε,
\* and none with x[j] > 0 has μ[j] > ε.
KKTWithin ==
    \A j \in 1..n :
        /\ ~Less(mu[j], Neg(tol))
        /\ Less(Zero, x[j]) => ~Less(tol, mu[j])

Projected ==
    LET c == Sub(x[k], Div(mu[k], Gram(k, k)))
    IN  IF Less(c, Zero) THEN Zero ELSE c

\* μ = Hx + f, and x = 0 until the first sweep.
C10Gradient ==
    /\ Len(x) > 0 => mu = Gradient(x)
    /\ (pc \in {"limit", "test"} /\ sweeps = 0) => x = [j \in 1..n |-> Zero]

\* One coordinate step: no change of x or μ when the projected value equals
\* x[k]; else x[k] becomes it and every μ[j] grows by delta*H[k][j].
C10Step ==
    (pc = "sweep" /\ <<pc, k>>' # <<pc, k>>) =>
        IF Eq(Projected, x[k])
        THEN x' = x /\ mu' = mu
        ELSE /\ x' = [x EXCEPT ![k] = Projected]
             /\ mu' = [j \in 1..n |->
                          Add(mu[j], Mul(Sub(Projected, x[k]), Gram(k, j)))]

\* C10: μ = Hx + f (with H = AᵀA and f = -Aᵀb computed from A and b) holds
\* from the setup on, between any two coordinate steps included, and each
\* coordinate step is as described.
C10Invariant == []C10Gradient /\ [][C10Step]_vars

\* C10 witness: a second or later sweep has changed x, all numbers finite.
C10Witness ==
    /\ pc = "stop"
    /\ sweeps >= 2
    /\ ch
    /\ x # xPrev
    /\ \A j \in 1..n : IsFinite(x[j]) /\ IsFinite(mu[j])

============================================================================
